---- MODULE Spec2Model ----
(***************************************************************************)
(* Gensyn faucet automation: the orchestrator (main.py), the claim state   *)
(* machine (src/faucet_automation.py), the sheet persistence               *)
(* (src/sheets_manager.py), the date utilities (src/utils.py) and the      *)
(* AdsPower browser lifecycle (src/adspower_api.py).                       *)
(*                                                                         *)
(* Time is an integer number of seconds.  A display string is a record:    *)
(* tag "date" is a well-formed 'DD.MM.YYYY HH:MM' string (the calendar day *)
(* is kept as a day index), tag "text" is any other text (txt names it,    *)
(* len is its length), and the tags "cooldown", "error" and "timeout" are  *)
(* the strings the code builds with the prefixes 'COOLDOWN:', 'Error: '    *)
(* and 'Timeout: '.                                                        *)
(***************************************************************************)
EXTENDS Integers, Sequences, FiniteSets

VARIABLES
    now,            \* datetime.now(), seconds
    utcoffset,      \* datetime.now().astimezone().utcoffset(), seconds
    retry_count,    \* FaucetAutomation.retry_count
    cooldown_hours, \* SheetsManager.cooldown_hours
    sheet,          \* the worksheet: row -> [key, date, count, status]
    ticks,          \* how often the clock has advanced (bounded)
    pageCan,        \* what the faucet page may show and do in this run
    util,           \* a call of a utils function on its own: arguments and result
    \* main()
    mpc, profiles, idx, total, success_count, error_count, summary, cancelled, processed,
    \* process_profile()
    ppc, profile, browser, page, pending, retval, started, stops, closes, writes,
    cleanupFailed, interrupts,
    \* claim_faucet()
    cpc, attempt, last_error, cresult, navs, inputOps, clicks, reloads, captchas,
    backoffs, waited, detected, shown,
    \* history, for the properties only: cancelled (a KeyboardInterrupt or
    \* CancelledError came out of process_profile), captchas (attempts that
    \* ended on a CAPTCHA error after the click) and shown (the button or error
    \* text a cooldown was detected from) are declared with their frames
    sheet0,         \* the worksheet as the run found it
    okRows,         \* rows whose claim_faucet result came back with success
    stepFailed,     \* an Exception was raised in the try body or the except clause
    errAt,          \* the attempt that last assigned last_error
    lastFail,       \* how the last failed attempt ended
    raisedAt,       \* the step of the attempt in hand that raised
    seen            \* what the last _check_for_success found on the page

envVars   == <<now, utcoffset, retry_count, cooldown_hours, ticks, pageCan, util, sheet0>>
mainVars  == <<mpc, profiles, idx, total, success_count, error_count, summary, cancelled, processed>>
profVars  == <<ppc, profile, browser, page, pending, retval, started, stops, closes, writes,
               cleanupFailed, interrupts, stepFailed>>
claimVars == <<cpc, attempt, last_error, cresult, navs, inputOps, clicks, reloads, captchas,
               backoffs, waited, detected, shown, errAt, lastFail, raisedAt, seen>>
vars == <<envVars, sheet, okRows, mainVars, profVars, claimVars>>

-----------------------------------------------------------------------------
(* Bounds of the model *)

MaxRetry == 2
MaxTicks == 1

(* Program constants *)

DefaultRetryCount == 3
DefaultCooldownHours == 24
TimerCooldownHours == 24
RateLimitCooldownHours == 24
ErrorPrefixCut == 100

Hour == 60 * 60
Day == 24 * Hour
TickStep == 40
NowBase == 10 * Day + 14 * Hour + 56 * 60 + 50

Min(a, b) == IF a < b THEN a ELSE b

-----------------------------------------------------------------------------
(* Strings *)

Text(s, n) == [tag |-> "text", txt |-> s, len |-> n, day |-> 0, hh |-> 0, mm |-> 0]
EmptyStr == Text("", 0)
None == 0 - 1
\* no utils function is being called on its own
NoUtil == [pc |-> "idle", dt |-> 0, date_str |-> EmptyStr, formatted |-> FALSE,
           parsed |-> None, passed |-> FALSE]

\* a string of spaces, and str.strip()
Blank == Text("   ", 3)
Strip(s) == IF s = Blank THEN EmptyStr ELSE s

\* bool(s) of a Python str
Truthy(s) == s.len > 0

\* utils.format_date: strftime("%d.%m.%Y %H:%M") drops the seconds
format_date(dt) ==
    [tag |-> "date", txt |-> "", len |-> 16,
     day |-> dt \div Day, hh |-> (dt % Day) \div Hour, mm |-> (dt % Hour) \div 60]

\* datetime.strptime(s, "%d.%m.%Y %H:%M"): the datetime, or ValueError raised
ValueError == 0 - 2
strptime(s) ==
    IF s.tag # "date"
    THEN ValueError
    ELSE s.day * Day + s.hh * Hour + s.mm * 60

\* a parse_date that lets the ValueError through
parse_date_uncaught(date_str) ==
    IF ~Truthy(date_str) \/ ~Truthy(Strip(date_str))
    THEN None
    ELSE strptime(Strip(date_str))

\* utils.parse_date: None for an empty, blank or malformed string
parse_date(date_str) ==
    IF ~Truthy(date_str) \/ ~Truthy(Strip(date_str))
    THEN None
    ELSE LET parsed == strptime(Strip(date_str))
         IN  IF parsed = ValueError THEN None ELSE parsed

\* a cooldown that has passed only after its end
is_cooldown_passed_late(date_str, hours, t) ==
    IF ~Truthy(date_str) \/ ~Truthy(Strip(date_str)) THEN TRUE
    ELSE LET last_work == parse_date(date_str) IN
         IF last_work = None THEN TRUE
         ELSE t > last_work + hours * Hour

\* utils.is_cooldown_passed, at clock value t
is_cooldown_passed(date_str, hours, t) ==
    IF ~Truthy(date_str) \/ ~Truthy(Strip(date_str)) THEN TRUE
    ELSE LET last_work == parse_date(date_str) IN
         IF last_work = None THEN TRUE
         ELSE t >= last_work + hours * Hour

\* f"COOLDOWN:{calculated_date}"
CooldownMsg(d) == [d EXCEPT !.tag = "cooldown", !.txt = "COOLDOWN:", !.len = 9 + d.len]
CooldownUnknown == Text("COOLDOWN:unknown", 16)
\* f"Timeout: {str(e)}"
TimeoutMsg(e) == [e EXCEPT !.tag = "timeout", !.len = 9 + e.len]
\* f"Error: {error_msg[:100]}"
ErrorMsg(e) == [e EXCEPT !.tag = "error", !.len = 7 + Min(e.len, ErrorPrefixCut)]

IsCooldownMessage(m) == m.tag = "cooldown" \/ m = CooldownUnknown

-----------------------------------------------------------------------------
(* What the page can show and what a page operation can do *)

NoUnit == 0 - 1
\* text_content() of the 'Come back in' button: h, m, s are the numbers
\* before 'h', 'm', 's', NoUnit where re.search finds none
ButtonTexts ==
    { [txt |-> "Come back in 23h 11m 49s", h |-> 23, m |-> 11, s |-> 49],
      [txt |-> "Come back in 5m", h |-> NoUnit, m |-> 5, s |-> NoUnit],
      [txt |-> "Come back in a while", h |-> NoUnit, m |-> NoUnit, s |-> NoUnit] }

NoIso == 0 - 1
IsoStamp == 11 * Day + 10 * Hour + 16 * 60 + 22
\* text_content() of p.text-red-600 after strip(): rl, h24, cap say whether
\* the lower-cased text contains 'rate limit', '24 hour', 'captcha'; iso is
\* the embedded YYYY-MM-DDTHH:MM:SS stamp
PageError(s, n, rl, h24, cap, iso) ==
    [body |-> Text(s, n), rl |-> rl, h24 |-> h24, cap |-> cap, iso |-> iso]
ErrorTexts ==
    { PageError("Invalid address", 15, FALSE, FALSE, FALSE, NoIso),
      PageError("", 0, FALSE, FALSE, FALSE, NoIso),
      PageError("Captcha verification failed", 27, FALSE, FALSE, TRUE, NoIso),
      PageError("rate limited, try again", 23, TRUE, FALSE, FALSE, NoIso),
      PageError("Rate Limit. Try again after 2025-12-27T10:16:22.424Z", 52,
                TRUE, FALSE, FALSE, IsoStamp),
      PageError("Once every 24 hours", 19, FALSE, TRUE, FALSE, NoIso) }
UnknownError == PageError("Unknown error", 13, FALSE, FALSE, FALSE, NoIso)
NoError == PageError("", 0, FALSE, FALSE, FALSE, NoIso)

\* an awaited page operation returns, raises PlaywrightTimeoutError or
\* raises another Exception whose str() may be empty
Ok == [kind |-> "ok", msg |-> EmptyStr]
Failures ==
    { [kind |-> "timeout", msg |-> Text("Timeout 15000ms exceeded", 24)],
      [kind |-> "exc", msg |-> Text("Target closed", 13)],
      [kind |-> "exc", msg |-> EmptyStr] }
OpOutcomes == {Ok} \cup Failures

-----------------------------------------------------------------------------
(* FaucetAutomation *)

Unit(u) == IF u = NoUnit THEN 0 ELSE u

\* _check_for_cooldown, lines 112-150: the button is present with
\* text_content() = button_text (NoText for None or '')
NoText == [txt |-> "", h |-> NoUnit, m |-> NoUnit, s |-> NoUnit]
\* a timer read to the hour only
CooldownDateHoursOnly(button_text, t) ==
    IF button_text = NoText
    THEN EmptyStr
    ELSE format_date(t - (TimerCooldownHours * Hour - Unit(button_text.h) * Hour))

CooldownDate(button_text, t) ==
    IF button_text = NoText
    THEN EmptyStr
    ELSE LET remaining == Unit(button_text.h) * Hour + Unit(button_text.m) * 60
                          + Unit(button_text.s)
             cooldown_total == TimerCooldownHours * Hour
             time_since_last_work == cooldown_total - remaining
         IN  format_date(t - time_since_last_work)

\* a retry stamp left in UTC
ParseRateLimitDateUtc(error, offset) ==
    IF error.iso = NoIso
    THEN EmptyStr
    ELSE format_date(error.iso - RateLimitCooldownHours * Hour)

\* _parse_rate_limit_date: '' stands for None
ParseRateLimitDate(error, offset) ==
    IF error.iso = NoIso
    THEN EmptyStr
    ELSE LET retry_after_local == error.iso + offset
         IN  format_date(retry_after_local - RateLimitCooldownHours * Hour)

\* "rate limit" in error_msg.lower() or "24 hour" in error_msg.lower()
IsRateLimit(error) == error.rl \/ error.h24
IsCaptcha(error) == error.cap

\* nothing has been detected
NoShown == [kind |-> "none"]

\* what a _check_for_success may find: success says one of the success texts
\* is there, error says p.text-red-600 is there as well
NoSeen == [checked |-> FALSE, success |-> FALSE, error |-> FALSE]
Views == [checked : {TRUE}, success : BOOLEAN, error : BOOLEAN]

Result(success, message) == [success |-> success, message |-> message]
NoResult == Result(FALSE, EmptyStr)

\* return False, f"COOLDOWN:{calculated_date}" / "COOLDOWN:unknown"
CooldownResult(calculated_date) ==
    IF Truthy(calculated_date)
    THEN Result(FALSE, CooldownMsg(calculated_date))
    ELSE Result(FALSE, CooldownUnknown)

\* the frame of claim_faucet is gone once it has returned or raised
ClaimLeave ==
    /\ cpc' = "idle"
    /\ attempt' = 0
    /\ last_error' = EmptyStr
    /\ navs' = 0 /\ inputOps' = 0 /\ clicks' = 0 /\ reloads' = 0 /\ captchas' = 0
    /\ backoffs' = 0 /\ waited' = FALSE /\ detected' = FALSE /\ shown' = NoShown
    /\ errAt' = 0 /\ lastFail' = "none" /\ raisedAt' = "none" /\ seen' = NoSeen

\* the call of claim_faucet, lines 199-200
ClaimEnter ==
    /\ cpc' = "while"
    /\ attempt' = 0
    /\ last_error' = EmptyStr
    /\ cresult' = NoResult
    /\ navs' = 0 /\ inputOps' = 0 /\ clicks' = 0 /\ reloads' = 0 /\ captchas' = 0
    /\ backoffs' = 0 /\ waited' = FALSE /\ detected' = FALSE /\ shown' = NoShown
    /\ errAt' = 0 /\ lastFail' = "none" /\ raisedAt' = "none" /\ seen' = NoSeen

\* the except clauses, lines 307-312: whatever a page operation raises is
\* caught, a PlaywrightTimeoutError by the first clause and any other
\* Exception by the second, whatever its text
Except(o) ==
    /\ o.kind \in {"timeout", "exc"}
    /\ last_error' = IF o.kind = "timeout" THEN TimeoutMsg(o.msg) ELSE o.msg
    /\ errAt' = attempt /\ lastFail' = "raised" /\ raisedAt' = cpc
    /\ cpc' = "backoff"

Return(r) == cpc' = "done" /\ cresult' = r

ClaimFrame == <<envVars, sheet, okRows, mainVars, profVars>>

\* line 321
ExhaustedResult(err) ==
    Result(FALSE, IF Truthy(err) THEN err ELSE Text("Max retries exceeded", 20))

\* the loop test off by one
WhileCheckOneMore ==
    /\ cpc = "while"
    /\ IF attempt <= retry_count
       THEN /\ attempt' = attempt + 1
            /\ cpc' = "goto"
            /\ raisedAt' = "none"
            /\ UNCHANGED cresult
       ELSE /\ Return(ExhaustedResult(last_error))
            /\ UNCHANGED <<attempt, raisedAt>>
    /\ UNCHANGED <<last_error, errAt, lastFail, navs, inputOps, clicks, reloads, captchas, backoffs, waited,
                   detected, shown, seen, ClaimFrame>>

\* while attempt < self.retry_count: attempt += 1, lines 202-204; line 321
WhileCheck ==
    /\ cpc = "while"
    /\ IF attempt < retry_count
       THEN /\ attempt' = attempt + 1
            /\ cpc' = "goto"
            /\ raisedAt' = "none"
            /\ UNCHANGED cresult
       ELSE /\ Return(ExhaustedResult(last_error))
            /\ UNCHANGED <<attempt, raisedAt>>
    /\ UNCHANGED <<last_error, errAt, lastFail, navs, inputOps, clicks, reloads, captchas, backoffs, waited,
                   detected, shown, seen, ClaimFrame>>

\* page.goto, line 209
Goto ==
    /\ cpc = "goto"
    /\ navs' = navs + 1
    /\ waited' = FALSE
    /\ \E o \in {Ok} \cup pageCan.failures :
          \/ o = Ok /\ cpc' = "load" /\ UNCHANGED <<last_error, errAt, lastFail, raisedAt>>
          \/ Except(o)
    /\ UNCHANGED <<attempt, cresult, inputOps, clicks, reloads, captchas, backoffs, detected, shown,
                   seen, ClaimFrame>>

\* a page-load wait whose timeout is not caught
WaitForPageLoadUncaught ==
    /\ cpc = "load"
    /\ \E o \in {Ok} \cup pageCan.failures :
          \/ o = Ok /\ cpc' = "wait_input" /\ UNCHANGED <<last_error, errAt, lastFail, raisedAt>>
          \/ Except(o)
    /\ UNCHANGED <<attempt, cresult, navs, inputOps, clicks, reloads, captchas, backoffs,
                   waited, detected, shown, seen, ClaimFrame>>

\* _wait_for_page_load, lines 40-45: the timeout is swallowed
WaitForPageLoad ==
    /\ cpc = "load"
    /\ \E o \in {Ok} \cup pageCan.failures :
          \/ o.kind \in {"ok", "timeout"} /\ cpc' = "wait_input" /\ UNCHANGED <<last_error, errAt, lastFail, raisedAt>>
          \/ o.kind = "exc" /\ Except(o)
    /\ UNCHANGED <<attempt, cresult, navs, inputOps, clicks, reloads, captchas, backoffs,
                   waited, detected, shown, seen, ClaimFrame>>

\* a visible wallet input typed into without the cooldown probe
WaitInputNoProbe ==
    /\ cpc = "wait_input"
    /\ \E o \in {Ok} \cup pageCan.failures :
          \/ o = Ok /\ cpc' = "type" /\ UNCHANGED <<last_error, errAt, lastFail, raisedAt>>
          \/ Except(o)
    /\ UNCHANGED <<attempt, cresult, navs, inputOps, clicks, reloads, captchas, backoffs,
                   waited, detected, shown, seen, ClaimFrame>>

\* wallet_input.wait_for(state="visible"), line 215
WaitInput ==
    /\ cpc = "wait_input"
    /\ \E o \in {Ok} \cup pageCan.failures :
          \/ o = Ok /\ cpc' = "probe" /\ UNCHANGED <<last_error, errAt, lastFail, raisedAt>>
          \/ Except(o)
    /\ UNCHANGED <<attempt, cresult, navs, inputOps, clicks, reloads, captchas, backoffs,
                   waited, detected, shown, seen, ClaimFrame>>

\* _check_for_cooldown and its use, lines 219-225
CooldownFound(button_text) ==
    /\ detected' = TRUE /\ shown' = [kind |-> "button", text |-> button_text]
    /\ Return(CooldownResult(CooldownDate(button_text, now)))

CheckCooldown ==
    /\ cpc = "probe"
    /\ \/ \* no button, or an Exception inside the probe: (False, None)
          /\ cpc' = "type"
          /\ UNCHANGED <<cresult, detected, shown>>
       \/ \E button_text \in pageCan.buttons : CooldownFound(button_text)
    /\ UNCHANGED <<attempt, last_error, errAt, lastFail, raisedAt, navs, inputOps, clicks, reloads, captchas, backoffs,
                   waited, seen, ClaimFrame>>

\* _clear_and_type, lines 47-53 and 232
ClearAndType ==
    /\ cpc = "type"
    /\ inputOps' = inputOps + 1
    /\ \E o \in {Ok} \cup pageCan.failures :
          \/ o = Ok /\ cpc' = "err1" /\ UNCHANGED <<last_error, errAt, lastFail, raisedAt>>
          \/ Except(o)
    /\ UNCHANGED <<attempt, cresult, navs, clicks, reloads, captchas, backoffs, waited,
                   detected, shown, seen, ClaimFrame>>

\* a rate-limit text handled like any other error text
RateLimitRetried(error) ==
    /\ detected' = TRUE /\ shown' = [kind |-> "error", text |-> error]
    /\ cpc' = "while"
    /\ UNCHANGED cresult

\* the rate-limit branch, lines 244-249 and 280-285
RateLimitFound(error) ==
    /\ detected' = TRUE /\ shown' = [kind |-> "error", text |-> error]
    /\ Return(CooldownResult(ParseRateLimitDate(error, utcoffset)))

\* an error text after typing that does not end the attempt
CheckErrorAfterFillNoContinue ==
    /\ cpc = "err1"
    /\ \/ /\ cpc' = "wait_send"
          /\ UNCHANGED <<last_error, errAt, lastFail, cresult, detected, shown>>
       \/ \E error \in pageCan.errors :
             /\ last_error' = error.body
             /\ errAt' = attempt /\ lastFail' = "error text"
             /\ IF IsRateLimit(error)
                THEN RateLimitFound(error)
                ELSE cpc' = "wait_send" /\ UNCHANGED <<cresult, detected, shown>>
    /\ UNCHANGED <<attempt, navs, inputOps, clicks, reloads, captchas, backoffs, waited,
                   raisedAt, seen, ClaimFrame>>

\* _check_for_error after typing and its use, lines 238-251
CheckErrorAfterFill ==
    /\ cpc = "err1"
    /\ \/ \* count() = 0, or an Exception inside the check: (False, "")
          /\ cpc' = "wait_send"
          /\ UNCHANGED <<last_error, errAt, lastFail, cresult, detected, shown>>
       \/ \E error \in pageCan.errors :
             /\ last_error' = error.body
             /\ errAt' = attempt /\ lastFail' = "error text"
             /\ IF IsRateLimit(error)
                THEN RateLimitFound(error)
                ELSE cpc' = "while" /\ UNCHANGED <<cresult, detected, shown>>
    /\ UNCHANGED <<attempt, navs, inputOps, clicks, reloads, captchas, backoffs, waited,
                   raisedAt, seen, ClaimFrame>>

\* send_button.wait_for(state="visible"), line 256
WaitSend ==
    /\ cpc = "wait_send"
    /\ \E o \in {Ok} \cup pageCan.failures :
          \/ o = Ok /\ cpc' = "click" /\ UNCHANGED <<last_error, errAt, lastFail, raisedAt>>
          \/ Except(o)
    /\ UNCHANGED <<attempt, cresult, navs, inputOps, clicks, reloads, captchas, backoffs,
                   waited, detected, shown, seen, ClaimFrame>>

\* send_button.click(), line 262
ClickSend ==
    /\ cpc = "click"
    /\ clicks' = clicks + 1
    /\ \E o \in {Ok} \cup pageCan.failures :
          \/ o = Ok /\ cpc' = "success1" /\ UNCHANGED <<last_error, errAt, lastFail, raisedAt>>
          \/ Except(o)
    /\ UNCHANGED <<attempt, cresult, navs, inputOps, reloads, captchas, backoffs, waited,
                   detected, shown, seen, ClaimFrame>>

\* an error text on the page taking precedence over the success text
CheckSuccessErrorFirst ==
    /\ cpc = "success1"
    /\ \E v \in Views :
          /\ seen' = v
          /\ IF v.success /\ ~v.error
             THEN Return(Result(TRUE, Text("OK", 2)))
             ELSE cpc' = "err2" /\ UNCHANGED cresult
    /\ UNCHANGED <<attempt, last_error, errAt, lastFail, raisedAt, navs, inputOps, clicks, reloads, captchas, backoffs,
                   waited, detected, shown, ClaimFrame>>

\* _check_for_success after the click, lines 269-271
CheckSuccess ==
    /\ cpc = "success1"
    /\ \E v \in Views :
          /\ seen' = v
          /\ IF v.success
             THEN Return(Result(TRUE, Text("OK", 2)))
             ELSE cpc' = "err2" /\ UNCHANGED cresult
    /\ UNCHANGED <<attempt, last_error, errAt, lastFail, raisedAt, navs, inputOps, clicks, reloads, captchas, backoffs,
                   waited, detected, shown, ClaimFrame>>

\* _check_for_error after the click and its use, lines 274-299
CheckErrorAfterSend ==
    /\ cpc = "err2"
    /\ \/ /\ last_error' = Text("Unknown state after clicking send", 33)
          /\ errAt' = attempt /\ lastFail' = "unknown state"
          /\ cpc' = "success2"
          /\ UNCHANGED <<cresult, detected, shown, captchas>>
       \/ \E error \in pageCan.errors :
             /\ last_error' = error.body
             /\ errAt' = attempt
             /\ lastFail' = IF IsCaptcha(error) THEN "captcha" ELSE "error text"
             /\ IF IsRateLimit(error)
                THEN RateLimitFound(error) /\ UNCHANGED captchas
                ELSE /\ cpc' = IF IsCaptcha(error) THEN "reload" ELSE "while"
                     /\ captchas' = IF IsCaptcha(error) THEN captchas + 1 ELSE captchas
                     /\ UNCHANGED <<cresult, detected, shown>>
    /\ seen' = NoSeen
    /\ UNCHANGED <<attempt, navs, inputOps, clicks, reloads, backoffs, waited,
                   raisedAt, ClaimFrame>>

\* a CAPTCHA error retried without the reload
ReloadSkipped ==
    /\ cpc = "reload"
    /\ cpc' = "while"
    /\ UNCHANGED <<attempt, last_error, errAt, lastFail, raisedAt, cresult, navs, inputOps, clicks,
                   reloads, captchas, backoffs, waited, detected, shown, seen, ClaimFrame>>

\* page.reload() and continue, lines 290-292
Reload ==
    /\ cpc = "reload"
    /\ reloads' = reloads + 1
    /\ \E o \in {Ok} \cup pageCan.failures :
          \/ o = Ok /\ cpc' = "while" /\ UNCHANGED <<last_error, errAt, lastFail, raisedAt>>
          \/ Except(o)
    /\ UNCHANGED <<attempt, cresult, navs, inputOps, clicks, captchas, backoffs, waited,
                   detected, shown, seen, ClaimFrame>>

\* a late success that is not returned but retried
CheckSuccessDelayedRetried ==
    /\ cpc = "success2"
    /\ cpc' = "while"
    /\ UNCHANGED <<attempt, last_error, errAt, lastFail, raisedAt, cresult, navs, inputOps, clicks,
                   reloads, captchas, backoffs, waited, detected, shown, seen, ClaimFrame>>

\* the delayed _check_for_success, lines 302-305
CheckSuccessDelayed ==
    /\ cpc = "success2"
    /\ \E v \in Views :
          /\ seen' = v
          /\ IF v.success
             THEN Return(Result(TRUE, Text("OK", 2)))
             ELSE cpc' = "backoff" /\ UNCHANGED cresult
    /\ UNCHANGED <<attempt, last_error, errAt, lastFail, raisedAt, navs, inputOps, clicks, reloads, captchas, backoffs,
                   waited, detected, shown, ClaimFrame>>

\* a retry without the wait
BackoffSkipped ==
    /\ cpc = "backoff"
    /\ cpc' = "while"
    /\ UNCHANGED <<attempt, last_error, errAt, lastFail, raisedAt, cresult, navs, inputOps, clicks,
                   reloads, captchas, backoffs, waited, detected, shown, seen, ClaimFrame>>

\* the wait before a retry written as a loop: while attempt < retry_count
BackoffWhile ==
    /\ cpc = "backoff"
    /\ waited' = TRUE
    /\ cpc' = IF attempt < retry_count THEN "backoff" ELSE "while"
    /\ seen' = NoSeen
    /\ UNCHANGED <<attempt, last_error, errAt, lastFail, raisedAt, cresult, navs, inputOps, clicks, reloads, captchas,
                   backoffs, detected, shown, ClaimFrame>>

\* if attempt < self.retry_count: await asyncio.sleep(3), lines 315-317
Backoff ==
    /\ cpc = "backoff"
    /\ IF attempt < retry_count
       THEN backoffs' = backoffs + 1 /\ waited' = TRUE
       ELSE UNCHANGED <<backoffs, waited>>
    /\ cpc' = "while"
    /\ seen' = NoSeen
    /\ UNCHANGED <<attempt, last_error, errAt, lastFail, raisedAt, cresult, navs, inputOps, clicks, reloads, captchas,
                   detected, shown, ClaimFrame>>

ClaimStep ==
    \/ WhileCheck \/ Goto \/ WaitForPageLoad \/ WaitInput \/ CheckCooldown
    \/ ClearAndType \/ CheckErrorAfterFill \/ WaitSend \/ ClickSend
    \/ CheckSuccess \/ CheckErrorAfterSend \/ Reload \/ CheckSuccessDelayed
    \/ Backoff

\* time passes while an operation is awaited
Tick ==
    /\ ticks < MaxTicks
    /\ cpc \notin {"idle", "done"} \/ ppc \notin {"idle", "exit"}
    /\ ticks' = ticks + 1
    /\ now' = now + TickStep
    /\ UNCHANGED <<utcoffset, retry_count, cooldown_hours, pageCan, util, sheet0, sheet, okRows,
                   mainVars, profVars, claimVars>>

-----------------------------------------------------------------------------
(* SheetsManager *)

NonDigit == 0 - 1
\* int(kol_vo) if kol_vo.strip().isdigit() else 0
ParseCount(kol_vo) == IF kol_vo = NonDigit THEN 0 ELSE kol_vo

HeaderLabels == {"profile", "profile number", "serial", "number", "#"}
IsDigit(cell) == cell \in {"101", "102", "103"}

\* get_all_profiles: the header row and the rows with an empty key are skipped
RECURSIVE ProfilesFrom(_, _)
ProfilesFrom(sh, row_idx) ==
    IF row_idx > Len(sh) THEN <<>>
    ELSE LET row == sh[row_idx]
             header == row_idx = 1 /\ ~IsDigit(row.key) /\ row.key \in HeaderLabels
         IN  IF header \/ row.key = ""
             THEN ProfilesFrom(sh, row_idx + 1)
             ELSE <<[row |-> row_idx, profile_number |-> row.key,
                     date_work |-> Strip(row.date),
                     kol_vo_zapros |-> ParseCount(row.count)]>>
                  \o ProfilesFrom(sh, row_idx + 1)
get_all_profiles(sh) == ProfilesFrom(sh, 1)

\* a fetch that does not look at the last-claim date
AllProfilesToProcess(sh, hours, t) == get_all_profiles(sh)

\* get_profiles_to_process
RECURSIVE ReadyProfiles(_, _, _)
ReadyProfiles(all_profiles, hours, t) ==
    IF all_profiles = <<>> THEN <<>>
    ELSE LET profile_ == Head(all_profiles)
             rest == ReadyProfiles(Tail(all_profiles), hours, t)
         IN  IF is_cooldown_passed(profile_.date_work, hours, t)
             THEN <<profile_>> \o rest
             ELSE rest
get_profiles_to_process(sh, hours, t) == ReadyProfiles(get_all_profiles(sh), hours, t)

\* a count that never moves, and one that always does
NewCountNever(success, current_count) == current_count
NewCountAlways(success, current_count) == current_count + 1

\* a result write that leaves the last-claim date alone
update_profile_result_keeps_date(sh, row, success, status_message, current_count, t) ==
    [sh EXCEPT ![row] = [@ EXCEPT !.count = current_count + (IF success THEN 1 ELSE 0),
                                  !.status = status_message]]

\* update_profile_result: one batch_update of date, count and status
NewCount(success, current_count) == IF success THEN current_count + 1 ELSE current_count
update_profile_result(sh, row, success, status_message, current_count, t) ==
    [sh EXCEPT ![row] = [@ EXCEPT !.date = format_date(t),
                                  !.count = NewCount(success, current_count),
                                  !.status = status_message]]

\* update_profile_with_cooldown: date and status only
update_profile_with_cooldown(sh, row, calculated_date) ==
    [sh EXCEPT ![row] = [@ EXCEPT !.date = calculated_date,
                                  !.status = Text("Cooldown", 8)]]

-----------------------------------------------------------------------------
(* process_profile *)

NoException == [kind |-> "none", msg |-> EmptyStr]
NoProfile == [row |-> 0, profile_number |-> "", date_work |-> EmptyStr, kol_vo_zapros |-> 0]
NoSummary == [total |-> 0 - 1, success |-> 0 - 1, failed |-> 0 - 1]

\* an Exception raised by AdsPower, Playwright or gspread
InfraErrors ==
    { [kind |-> "exc", msg |-> Text("AdsPower API error: profile not found", 37)],
      [kind |-> "exc", msg |-> Text("APIError: quota exceeded ...", 150)] }
\* KeyboardInterrupt and asyncio.CancelledError are no Exception
Cancellations == {"KeyboardInterrupt", "CancelledError"}

ProfFrame == <<envVars, mainVars, claimVars>>

\* lines 51-63
ProfileEnter(p) ==
    /\ ppc' = "start_browser"
    /\ profile' = p
    /\ browser' = FALSE /\ page' = FALSE
    /\ pending' = NoException /\ retval' = "none"
    /\ started' = FALSE /\ stops' = 0 /\ closes' = 0 /\ writes' = <<>>
    /\ cleanupFailed' = FALSE /\ interrupts' = 0 /\ stepFailed' = FALSE

\* the frame of process_profile is gone once main has its outcome
ProfileLeave ==
    /\ ppc' = "idle" /\ profile' = NoProfile
    /\ browser' = FALSE /\ page' = FALSE
    /\ pending' = NoException /\ retval' = "none"
    /\ started' = FALSE /\ stops' = 0 /\ closes' = 0 /\ writes' = <<>>
    /\ cleanupFailed' = FALSE /\ interrupts' = 0 /\ stepFailed' = FALSE
    /\ cresult' = NoResult

\* an Exception in the try body that goes to the finally clause unrecorded
CaughtNoWrite(e) == pending' = e /\ ppc' = "fin_page" /\ stepFailed' = TRUE

\* an Exception in the try body enters the except clause, line 101
Caught(e) == pending' = e /\ ppc' = "except" /\ stepFailed' = TRUE

\* adspower.start_browser, line 67-68
StartBrowser ==
    /\ ppc = "start_browser"
    /\ \/ started' = TRUE /\ ppc' = "connect" /\ UNCHANGED <<pending, stepFailed>>
       \/ \E e \in InfraErrors : Caught(e) /\ UNCHANGED started
    /\ UNCHANGED <<profile, browser, page, retval, stops, closes, writes,
                   cleanupFailed, interrupts, sheet, okRows, ProfFrame>>

\* connect_over_cdp, line 72
ConnectBrowser ==
    /\ ppc = "connect"
    /\ \/ browser' = TRUE /\ ppc' = "get_page" /\ UNCHANGED <<pending, stepFailed>>
       \/ \E e \in InfraErrors : Caught(e) /\ UNCHANGED browser
    /\ UNCHANGED <<profile, page, retval, started, stops, closes, writes,
                   cleanupFailed, interrupts, sheet, okRows, ProfFrame>>

\* the context and the page, lines 75-86, and the call of claim_faucet
GetPage ==
    /\ ppc = "get_page"
    /\ \/ /\ page' = TRUE /\ ppc' = "claim" /\ UNCHANGED <<pending, stepFailed>>
          /\ ClaimEnter
       \/ /\ \E e \in InfraErrors : Caught(e)
          /\ UNCHANGED <<page, claimVars>>
    /\ UNCHANGED <<profile, browser, retval, started, stops, closes, writes,
                   cleanupFailed, interrupts, sheet, okRows, envVars, mainVars>>

\* sheets.update_profile_result(row, success, message, current_count) and
\* return success, lines 92-99
WriteResult ==
    /\ ppc = "claim" /\ cpc = "done"
    /\ ClaimLeave
    /\ UNCHANGED cresult
    /\ \/ /\ sheet' = update_profile_result(sheet, profile.row, cresult.success,
                                            cresult.message, profile.kol_vo_zapros, now)
          /\ okRows' = IF cresult.success THEN okRows \cup {profile.row} ELSE okRows
          /\ writes' = Append(writes, [success |-> cresult.success, at |-> now])
          /\ retval' = IF cresult.success THEN "True" ELSE "False"
          /\ ppc' = "fin_page"
          /\ UNCHANGED <<pending, stepFailed>>
       \/ /\ \E e \in InfraErrors : Caught(e)
          /\ UNCHANGED <<sheet, okRows, writes, retval>>
    /\ UNCHANGED <<profile, browser, page, started, stops, closes,
                   cleanupFailed, interrupts, envVars, mainVars>>

\* an except clause that writes the success flag of the claim
WriteErrorKeepsSuccess ==
    /\ ppc = "except"
    /\ \/ /\ sheet' = update_profile_result(sheet, profile.row, cresult.success,
                                            ErrorMsg(pending.msg), profile.kol_vo_zapros, now)
          /\ writes' = Append(writes, [success |-> cresult.success, at |-> now])
          /\ retval' = "False"
          /\ pending' = NoException
          /\ UNCHANGED <<okRows, stepFailed>>
       \/ /\ \E e \in InfraErrors : pending' = e
          /\ stepFailed' = TRUE
          /\ UNCHANGED <<sheet, okRows, writes, retval>>
    /\ ppc' = "fin_page"
    /\ UNCHANGED <<profile, browser, page, started, stops, closes,
                   cleanupFailed, interrupts, ProfFrame>>

\* the except clause, lines 101-113
WriteError ==
    /\ ppc = "except"
    /\ \/ /\ sheet' = update_profile_result(sheet, profile.row, FALSE,
                                            ErrorMsg(pending.msg), profile.kol_vo_zapros, now)
          /\ writes' = Append(writes, [success |-> FALSE, at |-> now])
          /\ retval' = "False"
          /\ pending' = NoException
          /\ UNCHANGED <<okRows, stepFailed>>
       \/ /\ \E e \in InfraErrors : pending' = e
          /\ stepFailed' = TRUE
          /\ UNCHANGED <<sheet, okRows, writes, retval>>
    /\ ppc' = "fin_page"
    /\ UNCHANGED <<profile, browser, page, started, stops, closes,
                   cleanupFailed, interrupts, ProfFrame>>

\* page.close() without the try/except: its failure leaves process_profile
ClosePageUnguarded ==
    /\ ppc = "fin_page"
    /\ \/ /\ closes' = IF page THEN closes + 1 ELSE closes
          /\ ppc' = "fin_browser"
          /\ UNCHANGED <<cleanupFailed, pending, retval>>
       \/ /\ page
          /\ closes' = closes + 1
          /\ cleanupFailed' = TRUE
          /\ \E e \in InfraErrors : pending' = e
          /\ retval' = "none"
          /\ ppc' = "exit"
    /\ UNCHANGED <<profile, browser, page, stepFailed, started, stops, writes,
                   interrupts, sheet, okRows, ProfFrame>>

\* page.close() under try/except Exception, lines 117-121
ClosePage ==
    /\ ppc = "fin_page"
    /\ IF page
       THEN /\ closes' = closes + 1
            /\ \/ UNCHANGED cleanupFailed
               \/ cleanupFailed' = TRUE
       ELSE UNCHANGED <<closes, cleanupFailed>>
    /\ ppc' = "fin_browser"
    /\ UNCHANGED <<profile, browser, page, pending, stepFailed, retval, started, stops, writes,
                   interrupts, sheet, okRows, ProfFrame>>

\* browser.close() under try/except Exception, lines 124-128
CloseBrowser ==
    /\ ppc = "fin_browser"
    /\ IF browser
       THEN \/ UNCHANGED cleanupFailed
            \/ cleanupFailed' = TRUE
       ELSE UNCHANGED cleanupFailed
    /\ ppc' = "fin_stop"
    /\ UNCHANGED <<profile, browser, page, pending, stepFailed, retval, started, stops, closes,
                   writes, interrupts, sheet, okRows, ProfFrame>>

\* adspower.stop_browser, which catches Exception and returns False
stop_browser ==
    /\ stops' = stops + 1
    /\ \/ UNCHANGED cleanupFailed
       \/ cleanupFailed' = TRUE

\* a finally clause without the stop request
StopBrowserSkipped ==
    /\ ppc = "fin_stop"
    /\ ppc' = "fin_sleep"
    /\ UNCHANGED <<profile, browser, page, pending, stepFailed, retval, started, stops, closes,
                   writes, cleanupFailed, interrupts, sheet, okRows, ProfFrame>>

\* await adspower.stop_browser(serial_number), line 131
StopBrowser ==
    /\ ppc = "fin_stop"
    /\ stop_browser
    /\ ppc' = "fin_sleep"
    /\ UNCHANGED <<profile, browser, page, pending, stepFailed, retval, started, closes, writes,
                   interrupts, sheet, okRows, ProfFrame>>

\* await asyncio.sleep(2), line 134, and the end of the finally clause
ProfileSleep ==
    /\ ppc = "fin_sleep"
    /\ ppc' = "exit"
    /\ UNCHANGED <<profile, browser, page, pending, stepFailed, retval, started, stops, closes,
                   writes, cleanupFailed, interrupts, sheet, okRows, ProfFrame>>

\* a KeyboardInterrupt or CancelledError raised where process_profile (or
\* claim_faucet under it) is running: in the try body and in the except
\* clause the finally clause runs next; in the finally clause it leaves
\* process_profile at once
Interrupt ==
    /\ ppc \in {"start_browser", "connect", "get_page", "claim", "except",
                "fin_page", "fin_browser", "fin_stop", "fin_sleep"}
    /\ interrupts' = interrupts + 1
    /\ \E k \in Cancellations : pending' = [kind |-> k, msg |-> EmptyStr]
    /\ retval' = "none"
    /\ ppc' = IF ppc \in {"fin_page", "fin_browser", "fin_stop", "fin_sleep"}
              THEN "exit" ELSE "fin_page"
    /\ ClaimLeave
    /\ UNCHANGED <<profile, browser, page, started, stops, closes, writes,
                   cleanupFailed, stepFailed, sheet, okRows, envVars, mainVars, cresult>>

ProfileStep ==
    \/ StartBrowser \/ ConnectBrowser \/ GetPage \/ WriteResult \/ WriteError
    \/ ClosePage \/ CloseBrowser \/ StopBrowser \/ ProfileSleep

IdleMain ==
    /\ mpc = "idle" /\ profiles = <<>> /\ idx = 0 /\ total = 0
    /\ success_count = 0 /\ error_count = 0 /\ summary = NoSummary /\ cancelled = FALSE
    /\ processed = <<>>

IdleProfile ==
    /\ ppc = "idle" /\ profile = NoProfile /\ browser = FALSE /\ page = FALSE
    /\ pending = NoException /\ retval = "none" /\ started = FALSE /\ stops = 0
    /\ closes = 0 /\ writes = <<>> /\ cleanupFailed = FALSE /\ interrupts = 0
    /\ stepFailed = FALSE

IdleClaim ==
    /\ cpc = "idle" /\ attempt = 0 /\ last_error = EmptyStr /\ cresult = NoResult
    /\ navs = 0 /\ inputOps = 0 /\ clicks = 0 /\ reloads = 0 /\ captchas = 0
    /\ backoffs = 0 /\ waited = FALSE /\ detected = FALSE /\ shown = NoShown
    /\ errAt = 0 /\ lastFail = "none" /\ raisedAt = "none" /\ seen = NoSeen

-----------------------------------------------------------------------------
(* main *)

\* load_config and the three components, lines 144-149
MainStart ==
    /\ mpc = "start"
    /\ mpc' = "refresh"
    /\ UNCHANGED <<profiles, idx, total, success_count, error_count, summary, cancelled,
                   processed, envVars, sheet, okRows, profVars, claimVars>>

\* sheets.update_yes_no_column(), line 153: SheetsManager defines no such
\* method, so the call raises AttributeError, which nothing in main catches
MainRefresh ==
    /\ mpc = "refresh"
    /\ mpc' = "crashed"
    /\ UNCHANGED <<profiles, idx, total, success_count, error_count, summary, cancelled,
                   processed, envVars, sheet, okRows, profVars, claimVars>>

\* lines 156-167
MainFetch ==
    /\ mpc = "fetch"
    /\ profiles' = get_profiles_to_process(sheet, cooldown_hours, now)
    /\ IF profiles' = <<>>
       THEN mpc' = "done" /\ UNCHANGED total
       ELSE mpc' = "loop" /\ total' = Len(profiles')
    /\ UNCHANGED <<idx, success_count, error_count, summary, cancelled, processed,
                   envVars, sheet, okRows, profVars, claimVars>>

\* for i, profile in enumerate(profiles, 1): process_profile(...), lines 171-181
LoopNext ==
    /\ mpc = "loop"
    /\ IF idx < Len(profiles)
       THEN /\ idx' = idx + 1
            /\ mpc' = "in_profile"
            /\ processed' = Append(processed, profiles[idx + 1].row)
            /\ ProfileEnter(profiles[idx + 1])
       ELSE /\ mpc' = "close"
            /\ UNCHANGED <<idx, processed, profVars>>
    /\ UNCHANGED <<profiles, total, success_count, error_count, summary, cancelled,
                   envVars, sheet, okRows, claimVars>>

\* a loop body that lets an Exception of process_profile through
HandledNoCatch(raised, returned) ==
    CASE raised = "none" /\ returned = "True" -> "success"
      [] raised = "none" /\ returned # "True" -> "error"
      [] raised = "KeyboardInterrupt" -> "break"
      [] OTHER -> "raise"

\* the try/except around process_profile, lines 174-193: how the loop body
\* ends for what process_profile raised or returned
Handled(raised, returned) ==
    CASE raised = "none" /\ returned = "True" -> "success"
      [] raised = "none" /\ returned # "True" -> "error"
      [] raised = "exc" -> "error"
      [] raised = "KeyboardInterrupt" -> "break"
      [] OTHER -> "raise"

\* what main does with the outcome of process_profile, lines 183-193
LoopResult ==
    /\ mpc = "in_profile" /\ ppc = "exit"
    /\ ProfileLeave
    /\ LET how == Handled(pending.kind, retval) IN
       /\ success_count' = IF how = "success" THEN success_count + 1 ELSE success_count
       /\ error_count' = IF how = "error" THEN error_count + 1 ELSE error_count
       /\ mpc' = CASE how \in {"success", "error"} -> "loop"
                   [] how = "break" -> "close"
                   [] OTHER -> "crashed"
    /\ cancelled' = (cancelled \/ pending.kind \in Cancellations)
    /\ UNCHANGED <<profiles, idx, total, summary, processed, envVars, sheet, okRows,
                   cpc, attempt, last_error, errAt, lastFail, raisedAt, navs, inputOps, clicks, reloads, captchas,
                   backoffs, waited, detected, shown, seen>>

\* await adspower.close(), line 196
MainClose ==
    /\ mpc = "close"
    /\ mpc' = "summary"
    /\ UNCHANGED <<profiles, idx, total, success_count, error_count, summary, cancelled,
                   processed, envVars, sheet, okRows, profVars, claimVars>>

\* the summary, lines 199-205
MainSummary ==
    /\ mpc = "summary"
    /\ summary' = [total |-> total, success |-> success_count, failed |-> error_count]
    /\ mpc' = "done"
    /\ UNCHANGED <<profiles, idx, total, success_count, error_count, cancelled,
                   processed, envVars, sheet, okRows, profVars, claimVars>>

-----------------------------------------------------------------------------
(* The worksheet a run starts from *)

NRows == 2
RowKey(r) == IF r = 1 THEN "101" ELSE IF r = 2 THEN "102" ELSE "103"
Row(key, date, count) == [key |-> key, date |-> date, count |-> count, status |-> EmptyStr]

\* any rows: empty keys, garbage dates, non-numeric counts
AnySheets ==
    [1..NRows ->
        { Row(k, d, c) : k \in {"", "101"},
                         d \in {EmptyStr, Text("soon", 4),
                                format_date(NowBase - 25 * Hour),
                                format_date(NowBase - Hour)},
                         c \in {NonDigit, 2} }]

\* rows with a key, claimed never or an hour ago
KeyedSheets ==
    { sh \in [1..NRows -> [key : {"101", "102", "103"},
                           date : {EmptyStr, format_date(NowBase - Hour)},
                           count : {NonDigit, 2},
                           status : {EmptyStr}]] :
        \A r \in 1..NRows : /\ sh[r].key = RowKey(r)
                            /\ sh[r].count = (IF r = 1 THEN NonDigit ELSE 2) }

\* every text and failure of the model
AnyPage == [buttons |-> ButtonTexts \cup {NoText},
            errors |-> ErrorTexts \cup {UnknownError},
            failures |-> Failures]
\* one timer text, one CAPTCHA error, one rate-limit error, one failure
PlainPage == [buttons |-> {[txt |-> "Come back in 23h 11m 49s", h |-> 23, m |-> 11, s |-> 49]},
              errors |-> {PageError("Captcha verification failed", 27, FALSE, FALSE, TRUE, NoIso),
                          PageError("rate limited, try again", 23, TRUE, FALSE, FALSE, NoIso)},
              failures |-> {[kind |-> "timeout", msg |-> Text("Timeout 15000ms exceeded", 24)]}]

\* a whole run of main
Init ==
    /\ now = NowBase /\ ticks = 0
    /\ utcoffset \in {0, 2 * Hour}
    /\ pageCan = AnyPage
    /\ retry_count = DefaultRetryCount
    /\ cooldown_hours = DefaultCooldownHours
    /\ sheet \in AnySheets /\ sheet0 = sheet /\ util = NoUtil /\ okRows = {}
    /\ mpc = "start" /\ profiles = <<>> /\ idx = 0 /\ total = 0
    /\ success_count = 0 /\ error_count = 0 /\ summary = NoSummary /\ cancelled = FALSE
    /\ processed = <<>>
    /\ IdleProfile
    /\ IdleClaim

Next == MainStart \/ MainRefresh

Spec == Init /\ [][Next]_vars

\* main from line 155 on: the profile loop and the summary
LoopInit ==
    /\ now = NowBase /\ ticks = 0
    /\ utcoffset = 2 * Hour
    /\ pageCan = PlainPage
    /\ retry_count = 1
    /\ cooldown_hours = DefaultCooldownHours
    /\ sheet \in KeyedSheets /\ sheet0 = sheet /\ util = NoUtil /\ okRows = {}
    /\ mpc = "fetch" /\ profiles = <<>> /\ idx = 0 /\ total = 0
    /\ success_count = 0 /\ error_count = 0 /\ summary = NoSummary /\ cancelled = FALSE
    /\ processed = <<>>
    /\ IdleProfile
    /\ IdleClaim

LoopSteps ==
    \/ MainFetch \/ LoopNext \/ LoopResult \/ MainClose \/ MainSummary
    \/ ProfileStep \/ ClaimStep \/ Interrupt \/ Tick

SpecLoop == LoopInit /\ [][LoopSteps]_vars

\* process_profile called on its own for one profile of the sheet
ProfileInit ==
    /\ now = NowBase /\ ticks = 0
    /\ utcoffset = 2 * Hour
    /\ pageCan = AnyPage
    /\ retry_count \in 0..MaxRetry
    /\ cooldown_hours = DefaultCooldownHours
    /\ sheet \in KeyedSheets /\ sheet0 = sheet /\ util = NoUtil /\ okRows = {}
    /\ IdleMain
    /\ ppc = "start_browser"
    /\ \E r \in 1..NRows : profile = get_all_profiles(sheet)[r]
    /\ browser = FALSE /\ page = FALSE
    /\ pending = NoException /\ retval = "none" /\ started = FALSE /\ stops = 0
    /\ closes = 0 /\ writes = <<>> /\ cleanupFailed = FALSE /\ interrupts = 0
    /\ stepFailed = FALSE
    /\ IdleClaim

ProfileSteps == ProfileStep \/ ClaimStep \/ Interrupt \/ Tick

SpecProfile == ProfileInit /\ [][ProfileSteps]_vars

-----------------------------------------------------------------------------
(* get_profiles_to_process called on its own *)

\* cooldown_hours of config.yaml: the default, a shorter and a longer window
Windows == {1, DefaultCooldownHours, 2 * DefaultCooldownHours}

\* rows with and without a key, a header cell, dates around the end of the
\* default window, statuses of earlier runs
FetchSheets ==
    [1..NRows ->
        [key : {"", "101", "profile"},
         date : {EmptyStr, Blank, Text("soon", 4),
                 format_date(NowBase - DefaultCooldownHours * Hour - 60),
                 format_date(NowBase - DefaultCooldownHours * Hour + 60)},
         count : {2},
         status : {EmptyStr, Text("Cooldown", 8)}]]

FetchInit ==
    /\ now = NowBase /\ ticks = 0
    /\ utcoffset = 2 * Hour
    /\ pageCan = PlainPage
    /\ retry_count = DefaultRetryCount
    /\ cooldown_hours \in Windows
    /\ sheet \in FetchSheets /\ sheet0 = sheet /\ util = NoUtil /\ okRows = {}
    /\ mpc = "fetch" /\ profiles = <<>> /\ idx = 0 /\ total = 0
    /\ success_count = 0 /\ error_count = 0 /\ summary = NoSummary /\ cancelled = FALSE
    /\ processed = <<>>
    /\ IdleProfile
    /\ IdleClaim

FetchNext == MainFetch

SpecFetch == FetchInit /\ [][FetchNext]_vars

-----------------------------------------------------------------------------

(* The functions of utils.py called on their own *)

\* the clock with seconds and on the minute
UtilNows == {NowBase, NowBase - (NowBase % 60)}
\* offsets, in seconds, of a last-claim time from the end of a window
UtilOffsets == {0 - 60, 0 - 1, 0, 1, 60}
\* strings that are no date: empty, blank, words, a date that does not exist
UtilStrings == {EmptyStr, Blank, Text("soon", 4), Text("32.13.2025 25:61", 16)}

UtilInit ==
    /\ now \in UtilNows /\ ticks = 0
    /\ utcoffset = 2 * Hour
    /\ pageCan = PlainPage
    /\ retry_count = DefaultRetryCount
    /\ cooldown_hours \in Windows
    /\ sheet = <<>> /\ sheet0 = sheet /\ okRows = {}
    /\ \E o \in UtilOffsets, s \in UtilStrings :
          util = [pc |-> "start", dt |-> now - cooldown_hours * Hour + o, date_str |-> s,
                  formatted |-> FALSE, parsed |-> None, passed |-> FALSE]
    /\ IdleMain
    /\ IdleProfile
    /\ IdleClaim

UtilFrame == <<now, utcoffset, retry_count, cooldown_hours, ticks, pageCan, sheet0, sheet,
               okRows, mainVars, profVars, claimVars>>

\* date_str = format_date(dt)
UtilFormat ==
    /\ util.pc = "start"
    /\ util' = [util EXCEPT !.pc = "formatted", !.formatted = TRUE,
                            !.date_str = format_date(util.dt)]
    /\ UNCHANGED UtilFrame

\* parsed = parse_date(date_str)
UtilParse ==
    /\ util.pc \in {"start", "formatted"}
    /\ util' = [util EXCEPT !.pc = "parsed", !.parsed = parse_date(util.date_str)]
    /\ UNCHANGED UtilFrame

\* passed = is_cooldown_passed(date_str, cooldown_hours)
UtilCooldownPassed ==
    /\ util.pc \in {"start", "formatted"}
    /\ util' = [util EXCEPT !.pc = "checked",
                            !.passed = is_cooldown_passed(util.date_str, cooldown_hours, now)]
    /\ UNCHANGED UtilFrame

UtilNext == UtilFormat \/ UtilParse \/ UtilCooldownPassed

SpecUtils == UtilInit /\ [][UtilNext]_vars

-----------------------------------------------------------------------------

(* claim_faucet called on its own, for every retry_count of the bound *)

ClaimInit ==
    /\ now = NowBase
    /\ ticks = 0
    /\ utcoffset \in {0, 2 * Hour}
    /\ pageCan = AnyPage
    /\ retry_count \in 0..MaxRetry
    /\ cooldown_hours \in Windows
    /\ sheet = <<>> /\ sheet0 = sheet /\ util = NoUtil /\ okRows = {}
    /\ IdleMain
    /\ IdleProfile
    /\ cpc = "while" /\ attempt = 0 /\ last_error = EmptyStr /\ cresult = NoResult
    /\ navs = 0 /\ inputOps = 0 /\ clicks = 0 /\ reloads = 0 /\ captchas = 0
    /\ backoffs = 0 /\ waited = FALSE /\ detected = FALSE /\ shown = NoShown
    /\ errAt = 0 /\ lastFail = "none" /\ raisedAt = "none" /\ seen = NoSeen

ClaimNext == ClaimStep \/ Tick

SpecClaim == ClaimInit /\ [][ClaimNext]_vars

-----------------------------------------------------------------------------
(* process_profile on a page whose texts are long *)

\* a Playwright timeout with its call log, an error paragraph of several
\* sentences, a CAPTCHA error and a timer
LongPage == [buttons |-> {[txt |-> "Come back in 5m", h |-> NoUnit, m |-> 5, s |-> NoUnit]},
             errors |-> {PageError("Captcha verification failed", 27, FALSE, FALSE, TRUE, NoIso),
                         PageError("Invalid address. Please check ...", 140,
                                   FALSE, FALSE, FALSE, NoIso)},
             failures |-> {[kind |-> "timeout",
                            msg |-> Text("Locator.wait_for: Timeout 15000ms exceeded. Call log: ...",
                                         120)]}]

StatusInit ==
    /\ now = NowBase /\ ticks = 0
    /\ utcoffset = 2 * Hour
    /\ pageCan = LongPage
    /\ retry_count = 1
    /\ cooldown_hours = DefaultCooldownHours
    /\ sheet \in KeyedSheets /\ sheet0 = sheet /\ util = NoUtil /\ okRows = {}
    /\ IdleMain
    /\ ppc = "start_browser"
    /\ \E r \in 1..NRows : profile = get_all_profiles(sheet)[r]
    /\ browser = FALSE /\ page = FALSE
    /\ pending = NoException /\ retval = "none" /\ started = FALSE /\ stops = 0
    /\ closes = 0 /\ writes = <<>> /\ cleanupFailed = FALSE /\ interrupts = 0
    /\ stepFailed = FALSE
    /\ IdleClaim

SpecStatus == StatusInit /\ [][ProfileSteps]_vars

-----------------------------------------------------------------------------

(* Two runs: process_profile of one run, then a later run *)

\* the minute a write made at time t puts into the row
Minute(t) == t - (t % 60)

RunsInit ==
    /\ now = NowBase /\ ticks = 0
    /\ utcoffset = 2 * Hour
    /\ pageCan = PlainPage
    /\ retry_count = 1
    /\ cooldown_hours \in Windows
    /\ sheet \in KeyedSheets /\ sheet0 = sheet /\ util = NoUtil /\ okRows = {}
    /\ IdleMain
    /\ ppc = "start_browser"
    /\ \E r \in 1..NRows : profile = get_all_profiles(sheet)[r]
    /\ browser = FALSE /\ page = FALSE
    /\ pending = NoException /\ retval = "none" /\ started = FALSE /\ stops = 0
    /\ closes = 0 /\ writes = <<>> /\ cleanupFailed = FALSE /\ interrupts = 0
    /\ stepFailed = FALSE
    /\ IdleClaim

\* the clock of the later run: around the end of the window that began with
\* the write, or one second after the first run when it wrote nothing
LaterTimes ==
    IF writes = <<>>
    THEN {now + 1}
    ELSE { Minute(writes[1].at) + cooldown_hours * Hour + o : o \in UtilOffsets }

\* the run is over and main.py is run again, lines 208-209: main starts at
\* its first line, so the later run goes through lines 144-153 and ends at
\* line 153 before it fetches; what process_profile left behind is kept as
\* the record of the earlier run
NextRun ==
    /\ mpc = "idle" /\ ppc = "exit"
    /\ mpc' = "start"
    /\ now' \in LaterTimes
    /\ UNCHANGED <<profiles, idx, total, success_count, error_count, summary, cancelled,
                   processed, utcoffset, retry_count, cooldown_hours, ticks, pageCan, util,
                   sheet0, sheet, okRows, profVars, claimVars>>

\* the run is over and get_profiles_to_process is called at a later time on
\* the worksheet the run left, as line 156 calls it: the list of eligible
\* profiles of a later run, taken without lines 144-153
LaterFetch ==
    /\ mpc = "idle" /\ ppc = "exit"
    /\ mpc' = "fetch"
    /\ now' \in LaterTimes
    /\ UNCHANGED <<profiles, idx, total, success_count, error_count, summary, cancelled,
                   processed, utcoffset, retry_count, cooldown_hours, ticks, pageCan, util,
                   sheet0, sheet, okRows, profVars, claimVars>>

RunsSteps ==
    \/ ProfileStep \/ ClaimStep \/ Tick
    \/ NextRun \/ MainStart \/ MainRefresh
    \/ LaterFetch \/ MainFetch

SpecRuns == RunsInit /\ [][RunsSteps]_vars

-----------------------------------------------------------------------------

(* Termination: claim_faucet on its own and a run of main from the fetch on, *)
(* every awaited operation returning or raising                              *)

TermInit == ClaimInit \/ LoopInit

\* the steps of the program; each is one awaited operation or a piece of
\* code between two of them, and the event loop resumes the coroutine when
\* the operation is over
TermSteps ==
    \/ MainFetch \/ LoopNext \/ LoopResult \/ MainClose \/ MainSummary
    \/ ProfileStep \/ ClaimStep

TermNext == TermSteps \/ Interrupt

SpecTerm == TermInit /\ [][TermNext]_vars /\ WF_vars(TermSteps)

-----------------------------------------------------------------------------

(* Properties *)

RowsOf(ps) == [k \in 1..Len(ps) |-> ps[k].row]
\* the date a 'COOLDOWN:<date>' message carries
DetailDate(m) == [m EXCEPT !.tag = "date", !.txt = "", !.len = m.len - 9]
\* the result write of the profile in hand has been applied
ResultWritten == writes # <<>> /\ pending.kind = "none" /\ retval # "none" /\ ~stepFailed
\* claim_faucet came back with a failure that is no cooldown
ClaimFailed == cresult # NoResult /\ ~cresult.success /\ ~IsCooldownMessage(cresult.message)

\* C1: when claim_faucet ends with a cooldown outcome, the row written for
\* the profile has the status 'Cooldown', the last-claim date of the outcome's
\* detail (none or the old one when the detail is 'unknown') and the count
\* that was read.
C1_CooldownPersisted ==
    (ResultWritten /\ IsCooldownMessage(cresult.message)) =>
        LET r == sheet[profile.row] IN
        /\ r.status = Text("Cooldown", 8)
        /\ r.count = sheet0[profile.row].count
        /\ IF cresult.message = CooldownUnknown
           THEN r.date \in {EmptyStr, profile.date_work}
           ELSE r.date = DetailDate(cresult.message)

\* C2 as stated: whenever claim_faucet ended with Success, the row holds the
\* write time, the count read plus one and the outcome detail when
\* process_profile is over (runs without a cancellation).
C2_SuccessAlwaysPersisted ==
    (ppc = "exit" /\ cresult.success /\ interrupts = 0) =>
        /\ writes # <<>>
        /\ LET r == sheet[profile.row] IN
           /\ r.date = format_date(writes[Len(writes)].at)
           /\ r.count = profile.kol_vo_zapros + 1
           /\ r.status = cresult.message

\* C2, amended: once the result write of a Success outcome has been applied,
\* the row holds the time of that write to the minute, the count read plus
\* one and the outcome detail, and no other write follows for the profile.
C2_SuccessPersisted ==
    (cresult.success /\ writes # <<>> /\ writes[1].success) =>
        /\ Len(writes) = 1
        /\ LET r == sheet[profile.row] IN
           /\ r.date = format_date(writes[1].at)
           /\ r.count = profile.kol_vo_zapros + 1
           /\ r.status = cresult.message

C2_Witness ==
    /\ ppc = "exit" /\ retval = "True" /\ cresult.success
    /\ writes # <<>> /\ writes[1].at > NowBase
    /\ sheet0[profile.row].count = NonDigit

\* C3: a write for a failed claim that is no cooldown carries the time of the
\* write and the count that was read; and over a run the count of a row grows
\* by at most one, and only when the claim of its profile came back with
\* success.
C3_FailureKeepsCount ==
    /\ (ClaimFailed /\ writes # <<>>) =>
          LET r == sheet[profile.row] IN
          /\ r.date = format_date(writes[Len(writes)].at)
          /\ r.count = profile.kol_vo_zapros
    /\ \A r \in 1..Len(sheet) :
          LET d == ParseCount(sheet[r].count) - ParseCount(sheet0[r].count) IN
          /\ d \in {0, 1}
          /\ d = 1 => r \in okRows

C3_Witness ==
    /\ ppc = "exit" /\ ClaimFailed /\ writes # <<>>
    /\ writes[1].at > NowBase
    /\ idx = 2 /\ okRows = {1}

\* C4: once a cooldown button or a rate-limit text has been detected,
\* claim_faucet has returned a cooldown outcome: it is in no later step of the
\* attempt and starts no further attempt.
C4_CooldownIsTerminal ==
    detected => /\ cpc = "done"
                /\ ~cresult.success
                /\ IsCooldownMessage(cresult.message)

C4_Witness ==
    /\ detected /\ cpc = "done" /\ attempt < retry_count
    /\ clicks = 1 /\ cresult.message.tag = "cooldown"

\* C5: there are never more attempts than retry_count, each attempt has made
\* exactly one navigation; an exhausted outcome comes after retry_count
\* attempts and carries the error the last attempt recorded, or 'Max retries
\* exceeded' when that is empty.
C5_BoundedAttempts ==
    /\ attempt <= retry_count
    /\ navs = (IF cpc = "goto" THEN attempt - 1 ELSE attempt)
    /\ (cpc = "done" /\ ~cresult.success /\ ~detected) =>
          /\ attempt = retry_count
          /\ retry_count > 0 => errAt = attempt
          /\ cresult.message = (IF Truthy(last_error) THEN last_error
                                ELSE Text("Max retries exceeded", 20))

C5_Witness ==
    /\ cpc = "done" /\ ~cresult.success /\ ~detected
    /\ attempt = MaxRetry /\ navs = MaxRetry
    /\ cresult.message = Text("Max retries exceeded", 20)

\* C6 as stated: no attempt after the first starts without the backoff wait
\* since the attempt before it.
C6_BackoffBeforeEveryRetry == (cpc = "goto" /\ attempt > 1) => waited

\* C6, amended: an attempt after the first starts after the backoff wait
\* exactly when the attempt before it ended by a raised timeout or exception
\* or in the unknown state; after error text (CAPTCHA included) the next
\* attempt starts without it.
C6_BackoffAfterRaiseOrUnknown ==
    (cpc = "goto" /\ attempt > 1) => (waited <=> lastFail \in {"raised", "unknown state"})

C6_Witness ==
    /\ cpc = "goto" /\ attempt > 1 /\ waited /\ backoffs = 1
    /\ lastFail = "unknown state"

\* C7: a run that has ended has processed every eligible profile once, in
\* the order of the sheet.
C7_EveryEligibleProcessed ==
    mpc \in {"done", "crashed"} =>
        processed = RowsOf(get_profiles_to_process(sheet0, cooldown_hours, NowBase))

\* C8: when a step of process_profile has raised an Exception, main counts
\* the profile once as failed, leaves the count of successes alone and goes
\* on with the loop.
C8_FailureCountedOnce ==
    [][(mpc = "in_profile" /\ ppc = "exit" /\ stepFailed
            /\ pending.kind \notin Cancellations)
        => (/\ error_count' = error_count + 1
            /\ success_count' = success_count
            /\ mpc' = "loop"
            /\ idx' = idx)]_vars

C8_Witness ==
    /\ mpc = "in_profile" /\ idx = 2 /\ error_count = 1 /\ success_count = 0
    /\ sheet[processed[1]] = sheet0[processed[1]]

\* C9: when process_profile is over, the session it acquired has been asked
\* to stop and the page it obtained has been closed.
C9_SessionAlwaysStopped ==
    (ppc = "exit" /\ started) => (stops >= 1 /\ (page => closes >= 1))

\* C10: a step of the finally clause that is no cancellation goes on to the
\* next cleanup step, the stop request included, and leaves what
\* process_profile returns or raises as it was.
CleanupNext(pc) ==
    CASE pc = "fin_page" -> "fin_browser"
      [] pc = "fin_browser" -> "fin_stop"
      [] pc = "fin_stop" -> "fin_sleep"
      [] OTHER -> "exit"
C10_CleanupFailuresSwallowed ==
    [][(ppc \in {"fin_page", "fin_browser", "fin_stop", "fin_sleep"}
            /\ ppc' # ppc /\ interrupts' = interrupts)
        => (/\ ppc' = CleanupNext(ppc)
            /\ retval' = retval
            /\ pending' = pending
            /\ ppc = "fin_stop" => stops' = stops + 1)]_vars

C10_Witness ==
    /\ ppc = "exit" /\ cleanupFailed /\ interrupts = 0
    /\ closes = 1 /\ stops = 1 /\ retval = "True"

\* C11: a run that a cancellation has interrupted still ends with the summary
\* of the counts so far.
C11_CancelledRunSummarises ==
    (mpc \in {"done", "crashed"} /\ cancelled) =>
        summary = [total |-> total, success |-> success_count, failed |-> error_count]

\* C12: main goes on to another profile only after the stop request of the
\* profile in hand has been issued and has returned, and a profile is
\* started only while no other profile and no claim is in progress.
C12_OneSessionAtATime ==
    [][/\ (mpc = "in_profile" /\ mpc' = "loop") => (ppc = "exit" /\ stops >= 1)
       /\ (ppc' = "start_browser" /\ ppc # "start_browser") =>
             (ppc = "idle" /\ cpc = "idle" /\ ~started /\ mpc = "loop")]_vars

C12_Witness ==
    /\ mpc = "in_profile" /\ idx = 2 /\ started /\ stops = 0
    /\ okRows = {processed[1]}

\* the row is a profile row (it has a key and is no header) whose last-claim
\* date is empty, blank, unparseable or at least the window old at time t
EligibleRow(sh, r, hours, t) ==
    /\ sh[r].key # ""
    /\ ~(r = 1 /\ sh[r].key \in HeaderLabels)
    /\ \/ sh[r].date \in {EmptyStr, Blank}
       \/ parse_date(sh[r].date) = None
       \/ t >= parse_date(sh[r].date) + hours * Hour

\* C13: get_profiles_to_process returns exactly the profile rows with a
\* non-empty key whose last-claim date is empty, unparseable or at least the
\* window old, from top to bottom, whatever the status cell holds.
C13_EligibleList ==
    mpc \in {"loop", "done"} =>
        /\ \A k \in 1..Len(profiles) :
              /\ EligibleRow(sheet, profiles[k].row, cooldown_hours, now)
              /\ profiles[k].profile_number = sheet[profiles[k].row].key
              /\ k > 1 => profiles[k - 1].row < profiles[k].row
        /\ \A r \in 1..Len(sheet) :
              EligibleRow(sheet, r, cooldown_hours, now) =>
                  \E k \in 1..Len(profiles) : profiles[k].row = r

C13_Witness ==
    /\ mpc = "loop" /\ cooldown_hours = DefaultCooldownHours
    /\ sheet[1].key = "101"
    /\ sheet[1].date = format_date(NowBase - DefaultCooldownHours * Hour + 60)
    /\ sheet[2].key = "101"
    /\ sheet[2].date = format_date(NowBase - DefaultCooldownHours * Hour - 60)
    /\ sheet[2].status = Text("Cooldown", 8)
    /\ RowsOf(profiles) = <<2>>

\* what the countdown of a button text amounts to, an absent unit being 0
Remaining(b) == Unit(b.h) * Hour + Unit(b.m) * 60 + Unit(b.s)
HasUnit(b) == b.h # NoUnit \/ b.m # NoUnit \/ b.s # NoUnit
\* claim_faucet has returned on a cooldown button with text
ButtonDetected == cpc = "done" /\ detected /\ shown.kind = "button" /\ shown.text # NoText
\* claim_faucet has returned on a rate-limit text
RateLimitDetected == cpc = "done" /\ detected /\ shown.kind = "error"

\* C14 as stated: the detail of a cooldown read off the timer is the time
\* of detection less (the configured window less the countdown).
C14_TimerUsesConfiguredWindow ==
    (ButtonDetected /\ HasUnit(shown.text)) =>
        cresult.message =
            CooldownMsg(format_date(now - (cooldown_hours * Hour - Remaining(shown.text))))

\* C14, amended: the detail of a cooldown read off the timer is the time of
\* detection less (24 hours less the countdown), to the minute, whatever
\* window is configured.
C14_TimerUses24Hours ==
    (ButtonDetected /\ HasUnit(shown.text)) =>
        cresult.message =
            CooldownMsg(format_date(now - (24 * Hour - Remaining(shown.text))))

C14_Witness ==
    /\ ButtonDetected /\ shown.text.txt = "Come back in 23h 11m 49s"
    /\ cooldown_hours = 2 * DefaultCooldownHours
    /\ now > NowBase
    /\ cresult.message = CooldownMsg(format_date(now - (48 * 60 + 11)))

\* C15: a cooldown button whose text holds no hours, minutes or seconds gives
\* the outcome 'COOLDOWN:unknown'.
C15_UnparsedTimerIsUnknown ==
    (cpc = "done" /\ detected /\ shown.kind = "button" /\ ~HasUnit(shown.text)) =>
        cresult.message = CooldownUnknown

\* C16 as stated: a rate-limit text gives a cooldown outcome whose detail is
\* the embedded stamp in local time less the configured window, and 'unknown'
\* when the text embeds no stamp.
C16_RateLimitUsesConfiguredWindow ==
    RateLimitDetected =>
        cresult.message =
            (IF shown.text.iso = NoIso
             THEN CooldownUnknown
             ELSE CooldownMsg(format_date(shown.text.iso + utcoffset - cooldown_hours * Hour)))

\* C16, amended: a text with 'rate limit' or '24 hour' in it gives a cooldown
\* outcome whose detail is the embedded stamp moved from UTC to local time
\* less 24 hours, to the minute, whatever window is configured, and 'unknown'
\* when the text embeds no stamp.
C16_RateLimitUses24Hours ==
    RateLimitDetected =>
        /\ shown.text.rl \/ shown.text.h24
        /\ ~cresult.success
        /\ cresult.message =
              (IF shown.text.iso = NoIso
               THEN CooldownUnknown
               ELSE CooldownMsg(format_date(shown.text.iso + utcoffset - 24 * Hour)))

C16_Witness ==
    /\ RateLimitDetected /\ clicks = 1
    /\ shown.text.iso = IsoStamp /\ utcoffset = 2 * Hour /\ cooldown_hours = 1
    /\ cresult.message = CooldownMsg(format_date(IsoStamp - 22 * Hour))

\* C17: every attempt that ended on a CAPTCHA error after the click has
\* issued exactly one page.reload() and no other attempt has issued any, each
\* of them has used up one attempt, and a success comes in an attempt of its
\* own: after n such attempts a success is reached in attempt n + 1 at the
\* earliest, with n reloads.
C17_CaptchaReloadsOnce ==
    /\ reloads = (IF cpc = "reload" THEN captchas - 1 ELSE captchas)
    /\ captchas <= (IF cpc = "done" /\ cresult.success THEN attempt - 1 ELSE attempt)
    /\ cpc = "reload" => (lastFail = "captcha" /\ errAt = attempt)

C17_Witness ==
    /\ cpc = "done" /\ cresult.success
    /\ attempt = 2 /\ captchas = 1 /\ reloads = 1 /\ navs = 2 /\ backoffs = 0

UnknownState == Text("Unknown state after clicking send", 33)

\* C18: the delayed check is entered from the error check after the click
\* with last_error set to the unknown state; it is made once and either
\* returns success in the same attempt or ends the attempt with that
\* last_error; when the last of retry_count attempts ended so, claim_faucet
\* returns the failure with that message.
C18_UnknownStateRechecked ==
    [][/\ (cpc' = "success2" /\ cpc # "success2") =>
             (cpc = "err2" /\ last_error' = UnknownState /\ attempt' = attempt)
       /\ (cpc = "success2" /\ cpc' # "success2") =>
             /\ attempt' = attempt
             /\ \/ cpc' = "done" /\ cresult' = Result(TRUE, Text("OK", 2))
                \/ /\ cpc' = "backoff" /\ last_error' = UnknownState
                   /\ lastFail' = "unknown state" /\ cresult' = cresult
       /\ (cpc = "while" /\ cpc' = "done" /\ lastFail = "unknown state") =>
             /\ attempt = retry_count
             /\ cresult' = Result(FALSE, UnknownState)]_vars

C18_Witness ==
    /\ cpc = "done" /\ cresult.success
    /\ lastFail = "unknown state" /\ errAt = attempt /\ attempt = 1 /\ retry_count = 2

\* C19: parsing what format_date made of a time on the minute gives that
\* time back (and of any time, that time without its seconds); parsing an
\* empty, blank or malformed string gives None and raises nothing.
C19_ParseFormatRoundTrip ==
    util.pc = "parsed" =>
        IF util.formatted
        THEN /\ util.parsed = util.dt - (util.dt % 60)
             /\ util.dt % 60 = 0 => util.parsed = util.dt
        ELSE util.parsed = None

C19_Witness ==
    /\ util.pc = "parsed" /\ util.formatted
    /\ util.dt % 60 = 0 /\ util.parsed = util.dt /\ util.dt # 0

\* C20: is_cooldown_passed is true for an empty or unparseable string, and
\* for a parseable one exactly when now is at or after the parsed time plus
\* the window; so it is true for a time a minute before the start of the
\* window and false for a time a minute after it.
C20_CooldownPassed ==
    util.pc = "checked" =>
        /\ util.passed =
              (\/ util.date_str \in {EmptyStr, Blank}
               \/ parse_date(util.date_str) = None
               \/ now >= parse_date(util.date_str) + cooldown_hours * Hour)
        /\ ~util.formatted => util.passed
        /\ (util.formatted /\ util.dt = now - cooldown_hours * Hour - 60) => util.passed
        /\ (util.formatted /\ util.dt = now - cooldown_hours * Hour + 60) => ~util.passed

C20_Witness ==
    /\ util.pc = "checked" /\ util.formatted /\ cooldown_hours = 1
    /\ util.dt = now - cooldown_hours * Hour + 60 /\ ~util.passed

\* the last write of the profile in hand recorded a failure that is no cooldown
FailureWritten ==
    /\ writes # <<>> /\ ~writes[Len(writes)].success
    /\ ~IsCooldownMessage(sheet[profile.row].status)

\* C21: the status of a row written for a failure is an error text cut to at
\* most 100 characters (with its 'Error: ' or 'Timeout: ' prefix), however
\* long the text of the error or timeout is.
C21_StatusTruncated ==
    FailureWritten => sheet[profile.row].status.len <= ErrorPrefixCut + 9

\* the texts a PlaywrightTimeoutError leaves in last_error
TimeoutTexts == { TimeoutMsg(f.msg) : f \in {g \in pageCan.failures : g.kind = "timeout"} }

\* C22: the wait for the page to load goes on to the wait for the wallet
\* input when it times out, and never records a timeout; a timeout of the
\* wait for the wallet input or for the send button ends the attempt there,
\* with 'Timeout: ...' in last_error and no typing or click after it, and
\* claim_faucet then returns only when that was the last of retry_count
\* attempts, with that text.
C22_TimeoutsPerWait ==
    [][/\ (cpc = "load" /\ cpc' # "load") =>
             \/ cpc' = "wait_input" /\ attempt' = attempt /\ last_error' = last_error
             \/ cpc' = "backoff" /\ last_error' \notin TimeoutTexts
       /\ (cpc \in {"wait_input", "wait_send"} /\ cpc' = "backoff"
             /\ last_error' \in TimeoutTexts) =>
             /\ raisedAt' = cpc /\ errAt' = attempt /\ attempt' = attempt
             /\ inputOps' = inputOps /\ clicks' = clicks /\ cresult' = cresult
       /\ (raisedAt \in {"wait_input", "wait_send"} /\ last_error \in TimeoutTexts) =>
             /\ inputOps' = inputOps /\ clicks' = clicks
             /\ cpc \in {"backoff", "while"}
             /\ cpc' \in {"backoff", "while", "goto", "done"}
             /\ cpc' = "goto" => attempt' = attempt + 1
             /\ cpc' = "done" => (attempt = retry_count /\ cresult' = Result(FALSE, last_error))]_vars

C22_Witness ==
    /\ cpc = "done" /\ raisedAt = "wait_send" /\ retry_count = 2 /\ attempt = 2
    /\ cresult.message \in TimeoutTexts /\ inputOps = 2 /\ clicks = 0 /\ backoffs = 1

\* C23: the wallet input is clicked, cleared and typed into only in the step
\* that the cooldown probe of the same attempt leads to when it has found no
\* button, the send button is clicked only further down that attempt, and
\* the probe is made only after the wait for the wallet input of the same
\* attempt has returned.
C23_ProbeBeforeTyping ==
    [][/\ inputOps' # inputOps => (cpc = "type" /\ inputOps' = inputOps + 1)
       /\ clicks' # clicks => (cpc = "click" /\ clicks' = clicks + 1)
       /\ (cpc' = "click" /\ cpc # "click") => (cpc = "wait_send" /\ attempt' = attempt)
       /\ (cpc' = "wait_send" /\ cpc # "wait_send") => (cpc = "err1" /\ attempt' = attempt)
       /\ (cpc' = "err1" /\ cpc # "err1") => (cpc = "type" /\ attempt' = attempt)
       /\ (cpc' = "type" /\ cpc # "type") =>
             (cpc = "probe" /\ attempt' = attempt /\ ~detected /\ ~detected')
       /\ (cpc = "probe" /\ detected') => (cpc' = "done" /\ inputOps' = inputOps)
       /\ (cpc' = "probe" /\ cpc # "probe") => (cpc = "wait_input" /\ attempt' = attempt)
       /\ (cpc' = "wait_input" /\ cpc # "wait_input") => (cpc = "load" /\ attempt' = attempt)
       /\ attempt' # attempt => (cpc = "while" /\ cpc' = "goto")]_vars

C23_Witness ==
    /\ cpc = "success1" /\ attempt = 2 /\ inputOps = 2 /\ clicks = 1 /\ navs = 2
    /\ pageCan.buttons # {} /\ ~detected

\* the profiles whose process_profile has returned or raised an Exception
Finished == IF mpc = "in_profile" THEN idx - 1 ELSE idx

\* C24: while no cancellation has come, the successes and the failures add
\* up to the profiles finished so far; a run that has ended without one has
\* counted every profile fetched; and every run that has ended, one that
\* fetched no profile included, has reported the summary of total, successes
\* and failures.
C24_CountsAndSummary ==
    /\ ~cancelled => success_count + error_count = Finished
    /\ (mpc \in {"done", "crashed"} /\ ~cancelled) => success_count + error_count = total
    /\ mpc \in {"done", "crashed"} =>
          summary = [total |-> total, success |-> success_count, failed |-> error_count]

\* C25: claim_faucet returns success only from one of the two success checks
\* of an attempt, which come after the click of that attempt, and only when
\* the check has found a success text; and a check that finds a success text
\* returns success, with 'OK', also when an error text is on the page.
C25_SuccessOnlyAfterClick ==
    [][/\ (cpc' = "done" /\ cpc # "done" /\ cresult'.success) =>
             /\ cpc \in {"success1", "success2"}
             /\ seen'.checked /\ seen'.success
             /\ attempt' = attempt /\ clicks' = clicks /\ clicks >= 1
       /\ (cpc' = "success1" /\ cpc # "success1") =>
             (cpc = "click" /\ clicks' = clicks + 1 /\ attempt' = attempt)
       /\ (cpc' = "err2" /\ cpc # "err2") => (cpc = "success1" /\ attempt' = attempt)
       /\ (cpc' = "success2" /\ cpc # "success2") => (cpc = "err2" /\ attempt' = attempt)
       /\ (cpc \in {"success1", "success2"} /\ cpc' # cpc /\ seen'.success) =>
             (cpc' = "done" /\ cresult' = Result(TRUE, Text("OK", 2))
                /\ last_error' = last_error)]_vars

C25_Witness ==
    /\ cpc = "done" /\ cresult.success /\ seen.success /\ seen.error
    /\ attempt = 2 /\ clicks = 1 /\ lastFail = "error text"

\* the steps of an attempt that come after the click
PostClick == {"success1", "err2", "success2", "reload", "backoff"}

\* C26: the send button is clicked only at line 262, once, in an attempt in
\* which no cooldown has been detected and no error text has been recorded;
\* what follows the click only ends the attempt, and the next attempt has the
\* next number: so there is at most one click per attempt and never more
\* clicks than attempts, which are at most retry_count.
C26_OneClickPerAttempt ==
    [][/\ clicks' # clicks =>
             /\ cpc = "click" /\ cpc' \in PostClick /\ clicks' = clicks + 1
             /\ errAt < attempt /\ ~detected /\ attempt' = attempt
       /\ (cpc \in PostClick /\ cpc' \notin PostClick) => cpc' \in {"while", "done"}
       /\ (cpc = "err1" /\ errAt' = attempt) => cpc' \in {"while", "done"}
       /\ (cpc = "while" /\ cpc' # "while") =>
             (cpc' = "done" \/ (cpc' = "goto" /\ attempt' = attempt + 1))
       /\ clicks' <= attempt' /\ attempt' <= retry_count]_vars

C26_Witness ==
    /\ cpc = "done" /\ retry_count = 2 /\ clicks = 2 /\ attempt = 2
    /\ ~detected /\ ~cresult.success

\* C27: no profile gets more than one write applied; the write of the except
\* clause is made only after a step of the profile has raised and records a
\* failure; a failure written outside it is the failure claim_faucet
\* returned; and when the write after a successful claim has raised, the
\* write of the except clause, if it is applied, leaves the date of the
\* write, the count as it was read and an 'Error: ...' status, the count of
\* the row is not incremented either way and main counts the profile as
\* failed.
C27_SingleWrite ==
    [][/\ Len(writes') <= 1
       /\ (writes' # writes /\ writes' # <<>> /\ ppc = "except") =>
             (stepFailed /\ writes = <<>> /\ ~writes'[1].success)
       /\ (writes' # writes /\ writes' # <<>> /\ ppc # "except") =>
             (ppc = "claim" /\ ~stepFailed /\ writes'[1].success = cresult.success)
       /\ (ppc = "except" /\ cresult.success /\ writes' # writes) =>
             /\ sheet'[profile.row].date = format_date(now)
             /\ sheet'[profile.row].count = profile.kol_vo_zapros
             /\ sheet'[profile.row].status.tag = "error"
             /\ retval' = "False"
       /\ (mpc = "in_profile" /\ ppc = "exit" /\ cresult.success /\ stepFailed
             /\ pending.kind \notin Cancellations) =>
             /\ error_count' = error_count + 1 /\ success_count' = success_count
             /\ ParseCount(sheet[profile.row].count) = ParseCount(sheet0[profile.row].count)]_vars

C27_Witness ==
    /\ mpc = "in_profile" /\ ppc = "exit" /\ cresult.success /\ stepFailed
    /\ Len(writes) = 1 /\ ~writes[1].success /\ retval = "False"
    /\ sheet[profile.row].status.tag = "error"
    /\ sheet[profile.row].count = 2

\* C28: when a run has written the result of a profile at time T with a
\* success or a failure that is no cooldown, the list of eligible profiles
\* taken by a later run before the minute of T plus the window does not hold
\* that profile, whatever the window; a later run of main that ends before
\* it takes the list gets no profile at all.
C28_NoReprocessWithinWindow ==
    (mpc \in {"loop", "done", "crashed"} /\ ppc = "exit" /\ writes # <<>>
        /\ ~IsCooldownMessage(sheet[profile.row].status)
        /\ now < Minute(writes[1].at) + cooldown_hours * Hour) =>
        \A k \in 1..Len(profiles) : profiles[k].row # profile.row

C28_Witness ==
    /\ mpc = "loop" /\ ppc = "exit" /\ writes # <<>> /\ writes[1].success
    /\ writes[1].at > NowBase
    /\ cooldown_hours = 1
    /\ now = Minute(writes[1].at) + cooldown_hours * Hour - 1
    /\ profiles # <<>> /\ \A k \in 1..Len(profiles) : profiles[k].row # profile.row

\* C29: when start_browser or connect_over_cdp raises, claim_faucet is not
\* called for the profile (it is never called without a connected browser);
\* the except clause makes its write, which, unless it raises itself, leaves
\* the time of the write, an 'Error: ...' status and the count as it was read
\* in the row; and, no cancellation coming, process_profile ends with the
\* stop request issued once.
C29_InfraFailureRecorded ==
    [][/\ (ppc \in {"start_browser", "connect"} /\ stepFailed') =>
             (ppc' = "except" /\ ~browser' /\ cpc' = "idle")
       /\ (ppc = "except" /\ ~browser /\ writes' # writes) =>
             /\ sheet'[profile.row].date = format_date(now)
             /\ sheet'[profile.row].status = ErrorMsg(pending.msg)
             /\ sheet'[profile.row].status.len <= 7 + ErrorPrefixCut
             /\ sheet'[profile.row].count = profile.kol_vo_zapros
             /\ ParseCount(sheet'[profile.row].count) = ParseCount(sheet0[profile.row].count)
             /\ retval' = "False" /\ ppc' = "fin_page"
       /\ (ppc = "except" /\ ppc' # ppc /\ interrupts' = interrupts /\ writes' = writes) =>
             (pending'.kind = "exc" /\ sheet' = sheet /\ ppc' = "fin_page")
       /\ (ppc' = "exit" /\ ~browser' /\ interrupts' = 0) => (stepFailed' /\ stops' = 1)
       /\ ~browser' => (cpc' = "idle" /\ navs' = 0 /\ cresult' = NoResult)]_vars

C29_Witness ==
    /\ ppc = "exit" /\ started /\ ~browser /\ stepFailed /\ interrupts = 0
    /\ Len(writes) = 1 /\ stops = 1 /\ retval = "False"
    /\ sheet[profile.row].status = ErrorMsg(Text("APIError: quota exceeded ...", 150))
    /\ sheet[profile.row].date = format_date(NowBase + TickStep)
    /\ sheet0[profile.row].count = NonDigit /\ sheet[profile.row].count = 0

\* claim_faucet called on its own has returned, or main has ended
Terminated ==
    \/ mpc = "idle" /\ cpc = "done"
    \/ mpc \in {"done", "crashed"} /\ ppc = "idle" /\ cpc = "idle"

\* C30: every awaited operation returning or raising, claim_faucet returns,
\* for every retry_count from 0 on and whatever the page does, and a run of
\* main over the profiles it fetched ends; what claim_faucet returns is a
\* success with 'OK' or a failure with a detail, and it stays returned; with
\* retry_count = 0 it is the failure 'Max retries exceeded' and the page has
\* not been navigated, typed into, clicked or reloaded.
C30_AlwaysTerminates ==
    /\ <>Terminated
    /\ [](cpc = "done" =>
            \/ cresult = Result(TRUE, Text("OK", 2))
            \/ ~cresult.success /\ Truthy(cresult.message))
    /\ []((cpc = "done" /\ retry_count = 0) =>
            /\ cresult = Result(FALSE, Text("Max retries exceeded", 20))
            /\ navs = 0 /\ inputOps = 0 /\ clicks = 0 /\ reloads = 0)
    /\ [][(cpc = "done" /\ mpc = "idle" /\ ppc = "idle") =>
            (cpc' = "done" /\ cresult' = cresult)]_vars

C30_Witness ==
    /\ mpc = "idle" /\ ppc = "idle" /\ cpc = "done" /\ retry_count = 0
    /\ cresult = Result(FALSE, Text("Max retries exceeded", 20)) /\ navs = 0

====
